---- MODULE Spec2Model ----
(***************************************************************************)
(* A model of dashboard.py, the Streamlit dashboard that browses a tree of *)
(* benchmark results kept in a GitLab repository:                          *)
(*   - detect_step_trend, the step-trend segmentation of a series;         *)
(*   - list_subfolders_with_json_files, the discovery walk;                *)
(*   - the main script (steps 1 to 5);                                     *)
(*   - parse_file_history and plot_history_new, the history of one file.   *)
(* Strings are sequences of one-character strings, so that endswith,       *)
(* slicing, concatenation and sorted() are computed as Python computes     *)
(* them.  A number of a result file is a whole number: on whole numbers    *)
(* the double arithmetic of the code is exact.  A mean is an exact         *)
(* fraction.  A slider threshold is an integer count of slider steps of    *)
(* 0.01.                                                                   *)
(***************************************************************************)
EXTENDS Integers, Sequences, FiniteSets, TLC

\* ------------------------------------------------------------------ bounds
\* the longest series handed to detect_step_trend
MaxLen == 3
\* the largest value of a series
MaxVal == 3

\* The slider of plot_history_new moves in steps of 0.01: a threshold is
\* kept as a number of such steps, 1 .. 5000.
SliderScale == 100

VARIABLES
    \* detect_step_trend: its arguments, its loop variables, its result
    series, threshold, i, start_idx, segments, t_pc, t_out,
    \* the GitLab repository as the requests of one run of the script see it
    store,
    \* the position of the script, the HTTP requests it has made, what it has
    \* put on the page
    pc, requests, ui,
    \* list_subfolders_with_json_files: the pending calls of recurse, matching_folders
    stack, matching_folders,
    \* the main script
    apps, selected_app, json_files, file_pos, data,
    \* parse_file_history and plot_history_new
    h_file, commits, h_pos, h_data, df, chart

t_vars == <<series, threshold, i, start_idx, segments, t_pc, t_out>>
d_vars == <<stack, matching_folders>>
m_vars == <<apps, selected_app, json_files, file_pos, data>>
h_vars == <<h_file, commits, h_pos, h_data, df, chart>>

p_vars == <<store, pc, requests, ui, d_vars, m_vars, h_vars>>

vars == <<t_vars, store, pc, requests, ui, d_vars, m_vars, h_vars>>

SeqsUpTo(S, n) == UNION {[1..k -> S] : k \in 0..n}

\* ------------------------------------------------------------ arithmetic
Abs(x) == IF x < 0 THEN -x ELSE x

RECURSIVE GCD(_, _)
GCD(a, b) == IF b = 0 THEN a ELSE GCD(b, a % b)

\* A value of a series: a whole number or NaN.  The code computes in IEEE
\* doubles; the sum and the difference of two whole numbers are exact there,
\* and a whole number compares with the double of a threshold as it does with
\* the threshold itself.
Float(n) == [nan |-> FALSE, n |-> n]
NaN == [nan |-> TRUE, n |-> 0]
IsNaN(x) == x.nan

\* a + b on floats: NaN as soon as one of them is
Add(a, b) == IF IsNaN(a) \/ IsNaN(b) THEN NaN ELSE Float(a.n + b.n)

\* A mean: the exact fraction num/den in lowest terms, den > 0, or the NaN
\* that the mean of nothing is, written with den = 0.
Frac(n, d) == LET g == GCD(Abs(n), d) IN [num |-> n \div g, den |-> d \div g]
NaNMean == [num |-> 0, den |-> 0]

RECURSIVE Sum(_)
Sum(s) == IF s = <<>> THEN 0 ELSE Head(s).n + Sum(Tail(s))

\* Series.mean(): NaN values are skipped (skipna=True); NaN when nothing is left
SkipNa(values) == SelectSeq(values, LAMBDA x : ~IsNaN(x))
MeanSkipNa(values) ==
    IF SkipNa(values) = <<>> THEN NaNMean
    ELSE Frac(Sum(SkipNa(values)), Len(SkipNa(values)))

\* ------------------------------------------------------ detect_step_trend
\* series.iloc[k], the k-th value counting from 0
Iloc(values, k) == values[k + 1]

\* a faulty variant of Mean: the mean of the whole series
MeanWholeSeries(values, a, b) == MeanSkipNa(values)
\* series.iloc[a:b].mean() -- the arithmetic mean of the values a .. b-1
Mean(values, a, b) == MeanSkipNa(SubSeq(values, a + 1, b))

\* abs(series.iloc[i] - series.iloc[i-1]) > threshold; a comparison with NaN
\* is False
BoundaryTest(prev, cur, thr) ==
    /\ ~IsNaN(prev)
    /\ ~IsNaN(cur)
    /\ Abs(cur.n - prev.n) * SliderScale > thr

\* a faulty variant of FlushSegment: one repetition too few
FlushSegmentShort(values, segs, start, stop) ==
    segs \o [k \in 1..(stop - start - 1) |-> Mean(values, start, stop)]
\* segments.extend([seg_value] * (stop - start)), seg_value the mean of start .. stop-1
FlushSegment(values, segs, start, stop) ==
    segs \o [k \in 1..(stop - start) |-> Mean(values, start, stop)]

\* the state of the loop before its first iteration
TrendStart == [i |-> 1, start_idx |-> 0, segments |-> <<>>]

\* one iteration of "for i in range(1, len(series))"
TrendStep(values, thr, st) ==
    IF BoundaryTest(Iloc(values, st.i - 1), Iloc(values, st.i), thr)
    THEN [i |-> st.i + 1,
          start_idx |-> st.i,
          segments |-> FlushSegment(values, st.segments, st.start_idx, st.i)]
    ELSE [st EXCEPT !.i = @ + 1]

RECURSIVE TrendRun(_, _, _)
TrendRun(values, thr, st) ==
    IF st.i >= Len(values) THEN st ELSE TrendRun(values, thr, TrendStep(values, thr, st))

\* the flush of the last segment and the returned series
TrendFinish(s, st) ==
    [index |-> s.index,
     values |-> FlushSegment(s.values, st.segments, st.start_idx, Len(s.values))]

EmptySeries(s) == [index |-> s.index, values |-> <<>>]

\* the whole function, as plot_history_new calls it
detect_step_trend(s, thr) ==
    IF Len(s.values) = 0
    THEN EmptySeries(s)
    ELSE TrendFinish(s, TrendRun(s.values, thr, TrendStart))

\* ---------------------------------------------------------------- strings
\* the code points of the characters the model's names are written with
CharCode ==
    ("-" :> 45) @@ ("." :> 46) @@ ("/" :> 47) @@ ("a" :> 97) @@ ("b" :> 98) @@
    ("c" :> 99) @@ ("d" :> 100) @@ ("e" :> 101) @@ ("j" :> 106) @@ ("l" :> 108) @@
    ("n" :> 110) @@ ("o" :> 111) @@ ("r" :> 114) @@ ("s" :> 115) @@ ("t" :> 116) @@
    ("u" :> 117) @@ ("x" :> 120)

Front(s) == SubSeq(s, 1, Len(s) - 1)
Last(s) == s[Len(s)]

\* Python's a < b on str: by code point, a proper prefix first
RECURSIVE StrLess(_, _)
StrLess(a, b) ==
    IF b = <<>> THEN FALSE
    ELSE IF a = <<>> THEN TRUE
    ELSE IF Head(a) = Head(b) THEN StrLess(Tail(a), Tail(b))
    ELSE CharCode[Head(a)] < CharCode[Head(b)]

\* s.endswith(suffix)
EndsWith(s, suffix) ==
    /\ Len(s) >= Len(suffix)
    /\ SubSeq(s, Len(s) - Len(suffix) + 1, Len(s)) = suffix

\* s[k:]
SliceFrom(s, k) == SubSeq(s, k + 1, Len(s))

\* sorted(list of str)
RECURSIVE InsertSorted(_, _)
InsertSorted(x, sorted) ==
    IF sorted = <<>> THEN <<x>>
    ELSE IF StrLess(x, Head(sorted)) THEN <<x>> \o sorted
    ELSE <<Head(sorted)>> \o InsertSorted(x, Tail(sorted))

\* a faulty variant of SortedStrs: the list as the walk built it
Unsorted(strs) == strs
\* sorted(matching_folders): ascending by code point
RECURSIVE SortedStrs(_)
SortedStrs(strs) ==
    IF strs = <<>> THEN <<>> ELSE InsertSorted(Last(strs), SortedStrs(Front(strs)))

\* ---------------------------------------------------------- configuration
RESULTS_ROOT == <<"r", "e", "s", "u", "l", "t", "s">>
Slash == <<"/">>
DotJson == <<".", "j", "s", "o", "n">>

HTTP_OK == 200
HTTP_NOT_FOUND == 404
HTTP_SERVER_ERROR == 500

\* response.raise_for_status() raises on a 4xx or 5xx status
RaisesForStatus(status) == status >= 400 /\ status < 600

\* ------------------------------------------------------------ JSON values
\* A JSON value: a number, a string that reads as an ISO date-time ("isodate":
\* local hour n, UTC offset off), any other string ("text": its characters s),
\* a boolean, null, or a nested object or array ("nested").
Num(k) == [t |-> "num", n |-> k, off |-> 0, s |-> <<>>]
\* the characters of a date-time string, "2025-06-12THH:00:00+OO:00"
Digits == <<"0", "1", "2", "3", "4", "5", "6", "7", "8", "9">>
TwoDigits(k) == <<Digits[(k \div 10) + 1], Digits[(k % 10) + 1]>>
IsoChars(local, offset) ==
    <<"2", "0", "2", "5", "-", "0", "6", "-", "1", "2", "T">>
    \o TwoDigits(local) \o <<":", "0", "0", ":", "0", "0">>
    \o <<IF offset < 0 THEN "-" ELSE "+">> \o TwoDigits(Abs(offset))
    \o <<":", "0", "0">>
IsoDate(local, offset) ==
    [t |-> "isodate", n |-> local, off |-> offset, s |-> IsoChars(local, offset)]
Text(chars) == [t |-> "text", n |-> 0, off |-> 0, s |-> chars]
Bool(b) == [t |-> "bool", n |-> IF b THEN 1 ELSE 0, off |-> 0, s |-> <<>>]
Null == [t |-> "null", n |-> 0, off |-> 0, s |-> <<>>]
Nested == [t |-> "nested", n |-> 0, off |-> 0, s |-> <<>>]

\* isinstance(value, (int, float, str, bool))
IsPrimitive(v) == v.t \in {"num", "isodate", "text", "bool"}

\* The body of a response: text that is no JSON, a JSON array, or a JSON
\* object with its fields.
Malformed == [kind |-> "malformed", fields |-> <<>>]
JsonArray == [kind |-> "array", fields |-> <<>>]
JsonObject(fields) == [kind |-> "object", fields |-> fields]

Response(status, body) == [status |-> status, body |-> body]

\* ------------------------------------------------------- the repository
Name_a == <<"a">>
Name_a_b == <<"a", "-", "b">>
Name_x == <<"x">>
File_c_json == <<"c", ".", "j", "s", "o", "n">>
File_d_json == <<"d", ".", "j", "s", "o", "n">>
File_cjson == <<"c", "j", "s", "o", "n">>

\* a folder under the root, as the names on the way to it
RECURSIVE JoinPath(_)
JoinPath(folder) ==
    IF folder = <<>> THEN RESULTS_ROOT ELSE JoinPath(Front(folder)) \o Slash \o Last(folder)

RECURSIVE SetToSortedSeq(_)
SetToSortedSeq(S) ==
    IF S = {} THEN <<>>
    ELSE LET m == CHOOSE x \in S : \A y \in S : x = y \/ StrLess(x, y)
         IN <<m>> \o SetToSortedSeq(S \ {m})

BlobItem(folder, name) ==
    [type |-> "blob", name |-> name, path |-> JoinPath(folder) \o Slash \o name]
TreeItem(folder, name) ==
    [type |-> "tree", name |-> name, path |-> JoinPath(folder) \o Slash \o name]

\* The tree of the repository: its folders (each as the names on the way to
\* it, <<>> the root), the files of each folder, the folders whose listing
\* fails.  The answer to a listing of a folder: its subfolders by name, then
\* its files.
Listing(tree, folder) ==
    LET subs == SetToSortedSeq({Last(f) : f \in {g \in tree.folders :
                                   Len(g) = Len(folder) + 1 /\ Front(g) = folder}})
    IN [status |-> IF folder \in tree.failing THEN HTTP_SERVER_ERROR ELSE HTTP_OK,
        items |-> [k \in 1..Len(subs) |-> TreeItem(folder, subs[k])]
                  \o [k \in 1..Len(tree.blobs[folder]) |->
                         BlobItem(folder, tree.blobs[folder][k])]]

\* the answer of the repository to the listing of a path
TreeResponse(tree, path) ==
    Listing(tree, CHOOSE f \in tree.folders : JoinPath(f) = path)

\* ------------------------------------------------------------- discovery
\* One call of recurse(current_path), lines 61-79: the request, the qualifying
\* test, the calls it makes for the subfolders (put ahead of the calls that
\* are still pending, which is the order of the recursion).
HasJson(items) ==
    \E k \in 1..Len(items) : items[k].type = "blob" /\ EndsWith(items[k].name, DotJson)

IsTree(item) == item.type = "tree"

RECURSIVE PathsOf(_)
PathsOf(items) ==
    IF items = <<>> THEN <<>> ELSE <<Head(items).path>> \o PathsOf(Tail(items))

RECURSIVE NamesOf(_)
NamesOf(items) ==
    IF items = <<>> THEN <<>> ELSE <<Head(items).name>> \o NamesOf(Tail(items))

\* current_path[len(path) + 1:]
RelativePath(current_path, path) == SliceFrom(current_path, Len(path) + 1)

\* the requests of the script: the listing of a folder in the walk ("tree"),
\* the listing of the selected application on the branch ("file_list"), the
\* raw content of a file ("raw"), the commits of a file ("commits"), the
\* content of a file at a commit ("raw_at", ref the commit)
TreeRequest(path, status) == [kind |-> "tree", target |-> path, ref |-> 0, status |-> status]
FileListRequest(path, status) ==
    [kind |-> "file_list", target |-> path, ref |-> 0, status |-> status]

\* line 349 calling line 58: matching_folders = [], recurse(path)
Step1Call ==
    /\ pc = "step1"
    /\ stack' = <<RESULTS_ROOT>>
    /\ matching_folders' = <<>>
    /\ pc' = "recurse"
    /\ UNCHANGED <<t_vars, store, requests, ui, m_vars, h_vars>>

\* a faulty variant of RecurseRaises: an error status is not raised
RecurseIgnoringErrors(current_path, r) == FALSE
\* r.raise_for_status() on the listing of current_path
RecurseRaises(current_path, r) == RaisesForStatus(r.status)

Recurse ==
    /\ pc = "recurse"
    /\ stack # <<>>
    /\ LET current_path == Head(stack)
           r == TreeResponse(store.tree, current_path)
           items == IF RecurseRaises(current_path, r) THEN <<>> ELSE r.items
           is_root == current_path = RESULTS_ROOT
       IN /\ requests' = Append(requests, TreeRequest(current_path, r.status))
          /\ IF RecurseRaises(current_path, r)
             THEN \* raise_for_status: the exception leaves the function and the script
                  /\ pc' = "crashed"
                  /\ UNCHANGED <<stack, matching_folders>>
             ELSE /\ matching_folders' =
                        IF HasJson(items) /\ ~is_root
                        THEN Append(matching_folders, RelativePath(current_path, RESULTS_ROOT))
                        ELSE matching_folders
                  /\ stack' = PathsOf(SelectSeq(items, IsTree)) \o Tail(stack)
                  /\ pc' = "recurse"
    /\ UNCHANGED <<t_vars, store, ui, m_vars, h_vars>>

\* what st.error, st.warning, st.info, st.write or a widget puts on the page
Message(kind, msg) == [kind |-> kind, msg |-> msg, arg |-> <<>>]

NoAppsMessage == Message("error", "No app folders found under 'results' tree.")

\* line 82 and lines 349-352: return sorted(matching_folders); stop when empty
Step1Return ==
    /\ pc = "recurse"
    /\ stack = <<>>
    /\ apps' = SortedStrs(matching_folders)
    /\ IF apps' = <<>>
       THEN /\ ui' = Append(ui, NoAppsMessage)
            /\ pc' = "stopped"
       ELSE /\ ui' = ui
            /\ pc' = "select_app"
    /\ UNCHANGED <<t_vars, store, requests, d_vars, selected_app, json_files, file_pos, data, h_vars>>

\* line 354: the user's choice in the select box
SelectApp ==
    /\ pc = "select_app"
    /\ \E k \in 1..Len(apps) :
          /\ selected_app' = apps[k]
          /\ ui' = Append(ui, Message("selectbox", "Select an application: "))
    /\ pc' = "step2"
    /\ UNCHANGED <<t_vars, store, requests, d_vars, apps, json_files, file_pos, data, h_vars>>

\* ----------------------------------------------------------- main script
FileListErrorMessage == Message("error", "Error fetching file list")
NoJsonFilesMessage == Message("warning", "No JSON files found in the folder.")
\* a faulty variant of NoValidDataMessage: the message of an empty listing
NoValidDataMessageAsWarning == NoJsonFilesMessage
NoValidDataMessage == Message("info", "No valid JSON files loaded.")
SelectRowMessage == Message("write", "Select a row to see details.")
FailedToLoadMessage(filename) ==
    [kind |-> "warning", msg |-> "Failed to load", arg |-> filename]

\* f"results/{selected_app}"
AppPath(app) == RESULTS_ROOT \o Slash \o app
\* .../{RESULTS_ROOT}/{selected_app}/{filename}, and f"results/{selected_app}/{config}"
FilePath(app, filename) == RESULTS_ROOT \o Slash \o app \o Slash \o filename

\* lines 356-374: list the files of the selected application
Step2 ==
    /\ pc = "step2"
    /\ LET r == store.app_listing
           names == NamesOf(SelectSeq(r.items,
                        LAMBDA f : f.type = "blob" /\ EndsWith(f.name, DotJson)))
       IN /\ requests' = Append(requests, FileListRequest(AppPath(selected_app), r.status))
          /\ IF r.status # HTTP_OK
             THEN /\ ui' = Append(ui, FileListErrorMessage)
                  /\ pc' = "stopped"
                  /\ UNCHANGED <<json_files, file_pos, data>>
             ELSE /\ json_files' = names
                  /\ IF names = <<>>
                     THEN /\ ui' = Append(ui, NoJsonFilesMessage)
                          /\ pc' = "stopped"
                          /\ UNCHANGED <<file_pos, data>>
                     ELSE /\ ui' = ui
                          /\ pc' = "step3"
                          /\ file_pos' = 1
                          /\ data' = <<>>
    /\ UNCHANGED <<t_vars, store, d_vars, apps, selected_app, h_vars>>

\* a faulty variant of SetConfig: a config field of the file is kept
SetConfigKeepExisting(fields, filename) ==
    IF "config" \in DOMAIN fields
    THEN fields
    ELSE [k \in DOMAIN fields \cup {"config"} |->
             IF k = "config" THEN Text(filename) ELSE fields[k]]
\* content["config"] = filename
SetConfig(fields, filename) ==
    [k \in DOMAIN fields \cup {"config"} |->
        IF k = "config" THEN Text(filename) ELSE fields[k]]

\* The try block of lines 381-386 on one response: whether it ends without an
\* exception, and the record it appends.  raise_for_status raises on an error
\* status, json.loads on text that is no JSON, and the assignment of
\* content["config"] on a value that is no object.
LoadFile(filename, r) ==
    IF RaisesForStatus(r.status) \/ r.body.kind # "object"
    THEN [ok |-> FALSE, content |-> <<>>]
    ELSE [ok |-> TRUE, content |-> SetConfig(r.body.fields, filename)]

RawRequest(path, status) == [kind |-> "raw", target |-> path, ref |-> 0, status |-> status]

\* lines 379-388: one turn of the loop over json_files
Step3 ==
    /\ pc = "step3"
    /\ file_pos <= Len(json_files)
    /\ LET filename == json_files[file_pos]
           r == store.files[filename]
           loaded == LoadFile(filename, r)
       IN /\ requests' = Append(requests, RawRequest(FilePath(selected_app, filename), r.status))
          /\ IF loaded.ok
             THEN /\ data' = Append(data, loaded.content)
                  /\ ui' = ui
             ELSE /\ data' = data
                  /\ ui' = Append(ui, FailedToLoadMessage(filename))
    /\ file_pos' = file_pos + 1
    /\ UNCHANGED <<t_vars, store, pc, d_vars, apps, selected_app, json_files, h_vars>>

\* lines 390-427 and 437-438: the table, or the note that nothing was loaded
Step4 ==
    /\ pc = "step3"
    /\ file_pos > Len(json_files)
    /\ IF data # <<>>
       THEN /\ ui' = Append(ui, Message("table", "AgGrid"))
            /\ pc' = "step5"
       ELSE /\ ui' = Append(ui, NoValidDataMessage)
            /\ pc' = "done"
    /\ UNCHANGED <<t_vars, store, requests, d_vars, m_vars, h_vars>>

\* lines 429-436: the row the user ticked (0: none)
Step5 ==
    /\ pc = "step5"
    /\ \E sel \in 0..Len(data) :
          IF sel = 0
          THEN /\ ui' = Append(ui, SelectRowMessage)
               /\ pc' = "done"
               /\ UNCHANGED h_file
          ELSE /\ h_file' = FilePath(selected_app, data[sel]["config"].s)
               /\ pc' = "parse_file_history"
               /\ ui' = ui
    /\ UNCHANGED <<t_vars, store, requests, d_vars, m_vars, commits, h_pos, h_data, df, chart>>

\* ----------------------------------------------------- parse_file_history
CommitsRequest(path, status) ==
    [kind |-> "commits", target |-> path, ref |-> 0, status |-> status]
RawAtRequest(path, sha, status) ==
    [kind |-> "raw_at", target |-> path, ref |-> sha, status |-> status]

\* lines 297-304: the commits that touch the file; a commit's id is its
\* place in the store's list
CommitsRaises(r) == RaisesForStatus(r.status)

HistCommits ==
    /\ pc = "parse_file_history"
    /\ LET r == store.commits
       IN /\ requests' = Append(requests, CommitsRequest(h_file, r.status))
          /\ IF CommitsRaises(r)
             THEN /\ pc' = "crashed"
                  /\ UNCHANGED <<commits, h_pos, h_data>>
             ELSE /\ commits' = [k \in 1..Len(r.revs) |-> [id |-> k]]
                  /\ h_pos' = 1
                  /\ h_data' = <<>>
                  /\ pc' = "history_loop"
    /\ UNCHANGED <<t_vars, store, ui, d_vars, m_vars, h_file, df, chart>>

\* lines 316-326: the try block on the body of a 200 response.  json() raises
\* on text that is no JSON, json_data.items() on an array.
ExtractRecord(body) ==
    IF body.kind # "object"
    THEN [ok |-> FALSE, record |-> <<>>]
    ELSE [ok |-> TRUE,
          record |-> [k \in {k \in DOMAIN body.fields : IsPrimitive(body.fields[k])} |->
                         body.fields[k]]]

\* lines 305-328: one turn of the loop over commits; what it adds to data
FetchedRecords(r) ==
    IF r.status = HTTP_OK /\ ExtractRecord(r.body).ok
    THEN <<ExtractRecord(r.body).record>>
    ELSE <<>>

HistFetch ==
    /\ pc = "history_loop"
    /\ h_pos <= Len(commits)
    /\ LET sha == commits[h_pos].id
           r == store.commits.revs[sha]
       IN /\ requests' = Append(requests, RawAtRequest(h_file, sha, r.status))
          /\ h_data' = h_data \o FetchedRecords(r)
    /\ h_pos' = h_pos + 1
    /\ UNCHANGED <<t_vars, store, pc, ui, d_vars, m_vars, h_file, commits, df, chart>>

\* pd.DataFrame(data): its columns, and df.empty
Columns(records) == UNION {DOMAIN records[k] : k \in 1..Len(records)}
DfEmpty(records) == Len(records) = 0 \/ Columns(records) = {}

\* the cell of a record that lacks the column: NaN
Missing == [t |-> "nan", n |-> 0, off |-> 0, s |-> <<>>]
Cell(record, key) == IF key \in DOMAIN record THEN record[key] ELSE Missing

\* the frame of line 330: a row for each record, a column for each key of any
\* record; a row keeps the label of its place in data
Frame(records) ==
    [k \in 1..Len(records) |->
        [index |-> k - 1,
         cells |-> [c \in Columns(records) |-> Cell(records[k], c)]]]

\* A datetime64[ns] value: NaT, or the instant ns nanoseconds after the hour
\* t, hours counted from 1970-01-01T00:00 UTC.  An "isodate" string of the
\* model is a time of the day of the example of the header (2025-06-12).
ExampleDayHour == 486024
NaT == [nat |-> TRUE, t |-> 0, ns |-> 0]
Instant(hour, nanos) == [nat |-> FALSE, t |-> hour, ns |-> nanos]

\* the first value of a column that is not null, as to_datetime looks for it
\* to guess the format of the column; Missing when there is none
FirstNonNull(column) ==
    IF \A k \in 1..Len(column) : column[k].t = "nan"
    THEN Missing
    ELSE column[CHOOSE k \in 1..Len(column) :
                    /\ column[k].t # "nan"
                    /\ \A j \in 1..(k - 1) : column[j].t = "nan"]

\* pd.to_datetime(column, errors="coerce", utc=True) on a column that is not
\* all booleans.  Read value by value, a date-time string gives its UTC
\* instant, a number the instant that many nanoseconds after the epoch, and a
\* missing value, a boolean or any other string NaT.  Read with the format of
\* the first non-null value, a string of that format gives its UTC instant
\* and every other value NaT.
ReadEach(column) ==
    [k \in 1..Len(column) |->
        IF column[k].t = "isodate"
        THEN Instant(ExampleDayHour + column[k].n - column[k].off, 0)
        ELSE IF column[k].t = "num" THEN Instant(0, column[k].n)
        ELSE NaT]
ReadWithFormat(column) ==
    [k \in 1..Len(column) |->
        IF column[k].t = "isodate"
        THEN Instant(ExampleDayHour + column[k].n - column[k].off, 0)
        ELSE NaT]

\* The readings of a column.  No version of pandas is pinned: pandas 2 reads
\* with the format guessed from the first non-null value when that is a
\* date-time string, earlier versions read value by value.
ToDatetimeUtc(column) ==
    IF FirstNonNull(column).t = "isodate"
    THEN {ReadWithFormat(column), ReadEach(column)}
    ELSE {ReadEach(column)}

\* A column of nothing but booleans has dtype bool: to_datetime coerces it
\* to NaT values without a time zone, and .dt.tz_convert(None) raises
\* TypeError on them.
IsBool(v) == v.t = "bool"
BoolColumn(column) == \A k \in 1..Len(column) : IsBool(column[k])
DateColumn(rows) == [k \in 1..Len(rows) |-> rows[k].cells["date"]]
TzConvertRaises(rows) == BoolColumn(DateColumn(rows))

\* line 333: the "date" column replaced by its datetimes
WithDates(rows) ==
    {[k \in 1..Len(rows) |->
         [index |-> rows[k].index,
          date |-> dates[k],
          cells |-> [c \in DOMAIN rows[k].cells \ {"date"} |-> rows[k].cells[c]]]] :
        dates \in ToDatetimeUtc(DateColumn(rows))}

\* df.sort_values("date"): ascending, NaT last; the order of rows with equal
\* dates is not fixed (the default sort is not stable)
RowOrders(n) == {f \in [1..n -> 1..n] : \A a, b \in 1..n : a # b => f[a] # f[b]}
DateOrder(a, b) == b.nat \/ (~a.nat /\ (a.t < b.t \/ (a.t = b.t /\ a.ns <= b.ns)))
SortedByDate(rows) == \A k \in 1..(Len(rows) - 1) : DateOrder(rows[k].date, rows[k + 1].date)
SortValues(rows) ==
    {s \in {[k \in 1..Len(rows) |-> rows[f[k]]] : f \in RowOrders(Len(rows))} :
        SortedByDate(s)}

\* --- plot_history_new
IsNull(v) == v.t = "nan"
IsStr(v) == v.t \in {"text", "isodate"}
TimeColumn(rows, c) == [k \in 1..Len(rows) |-> rows[k].cells[c]]

\* lines 220-223: True where the frame has no test_result column, and
\* fillna(True) where it has one
TestResult(row) ==
    IF "test_result" \notin DOMAIN row.cells \/ IsNull(row.cells["test_result"])
    THEN Bool(TRUE)
    ELSE row.cells["test_result"]

\* line 226, df["initial_time"] + df["compute_time"]: KeyError when the frame
\* lacks one of the columns, TypeError when a row adds a str and a value that
\* is neither a str nor missing
TotalTimeRaises(rows) ==
    \/ {"initial_time", "compute_time"} \ DOMAIN rows[1].cells # {}
    \/ \E k \in 1..Len(rows) :
          LET a == rows[k].cells["initial_time"]
              b == rows[k].cells["compute_time"]
          IN ~IsNull(a) /\ ~IsNull(b) /\ IsStr(a) # IsStr(b)

\* the sum of a row: NaN when one of the two is missing, the concatenation of
\* two str, the logical or of two columns of dtype bool, and otherwise the
\* sum of the numbers (a bool counts as 1 or 0)
TotalTime(rows) ==
    [k \in 1..Len(rows) |->
        LET a == rows[k].cells["initial_time"]
            b == rows[k].cells["compute_time"]
        IN IF IsNull(a) \/ IsNull(b) THEN Missing
           ELSE IF IsStr(a) THEN Text(a.s \o b.s)
           ELSE IF BoolColumn(TimeColumn(rows, "initial_time"))
                   /\ BoolColumn(TimeColumn(rows, "compute_time"))
           THEN Bool(a.n = 1 \/ b.n = 1)
           ELSE Num(a.n + b.n)]

\* lines 228-237: the widgets of the sidebar
SidebarWidgets ==
    <<Message("sidebar.subheader", "Step Trendline Settings"),
      Message("sidebar.slider", "Threshold for compute_time steps"),
      Message("sidebar.slider", "Threshold for total_time steps")>>
ChartMessage == Message("chart", "Performance History with Step Trendlines")

\* detect_step_trend raises TypeError on a column that holds a str (the
\* difference of line 193, or the mean of a series of one str) and on a
\* column of dtype bool with two or more values (numpy has no difference of
\* booleans)
SeriesRaises(column) ==
    \/ \E k \in 1..Len(column) : IsStr(column[k])
    \/ BoolColumn(column) /\ Len(column) >= 2
\* lines 240-241
StepTrendRaises(rows) ==
    SeriesRaises(TimeColumn(rows, "compute_time")) \/ SeriesRaises(TotalTime(rows))

\* a column as the series detect_step_trend works on: the labels of the
\* rows, a number as it is, a bool as 1 or 0, a missing value as NaN
ToFloat(v) == IF v.t \in {"num", "bool"} THEN Float(v.n) ELSE NaN
AsSeries(rows, column) ==
    [index |-> [k \in 1..Len(rows) |-> rows[k].index],
     values |-> [k \in 1..Len(rows) |-> ToFloat(column[k])]]

\* the frame that is charted, lines 217-241
Charted(rows, compute_threshold, total_threshold) ==
    LET compute_step == detect_step_trend(AsSeries(rows, TimeColumn(rows, "compute_time")),
                                          compute_threshold)
        total_step == detect_step_trend(AsSeries(rows, TotalTime(rows)), total_threshold)
    IN [k \in 1..Len(rows) |->
           [date |-> rows[k].date,
            compute_time |-> rows[k].cells["compute_time"],
            initial_time |-> rows[k].cells["initial_time"],
            test_result |-> TestResult(rows[k]),
            total_time |-> TotalTime(rows)[k],
            compute_step |-> compute_step.values[k],
            total_step |-> total_step.values[k]]]

\* plot_history_new(df) on a frame with at least one row: whether it raises,
\* what it puts on the page, and the frame of its chart
plot_history_new(rows, compute_threshold, total_threshold) ==
    IF TotalTimeRaises(rows)
    THEN [raised |-> TRUE, ui |-> <<>>, chart |-> <<>>]
    ELSE IF StepTrendRaises(rows)
    THEN [raised |-> TRUE, ui |-> SidebarWidgets, chart |-> <<>>]
    ELSE [raised |-> FALSE,
          ui |-> Append(SidebarWidgets, ChartMessage),
          chart |-> Charted(rows, compute_threshold, total_threshold)]

\* the positions of the two sliders: both at their default of 1.0, or moved
\* to 0.5 and 2.5
SliderDefault == 100
SliderChoices == {<<SliderDefault, SliderDefault>>, <<50, 250>>}

\* lines 330-336: the frame, the conversion of the dates, the sort, the chart.
\* df is the frame as line 335 leaves it.
HistPlot ==
    /\ pc = "history_loop"
    /\ h_pos > Len(commits)
    /\ IF DfEmpty(h_data)
       THEN /\ pc' = "done"
            /\ UNCHANGED <<ui, df, chart>>
       ELSE IF "date" \notin Columns(h_data) \/ TzConvertRaises(Frame(h_data))
       THEN \* df["date"] raises KeyError, or tz_convert TypeError
            /\ pc' = "crashed"
            /\ UNCHANGED <<ui, df, chart>>
       ELSE \E dated \in WithDates(Frame(h_data)), sliders \in SliderChoices :
               \E sorted \in SortValues(dated) :
                   LET plot == plot_history_new(sorted, sliders[1], sliders[2])
                   IN /\ df' = sorted
                      /\ chart' = plot.chart
                      /\ ui' = ui \o plot.ui
                      /\ pc' = IF plot.raised THEN "crashed" ELSE "done"
    /\ UNCHANGED <<t_vars, store, requests, d_vars, m_vars, h_file, commits, h_pos, h_data>>

\* ------------------------------------------------------------ the stores
\* bounds of the stores the script is run against
MaxDepth == 2
MaxRevs == 3

\* the folders a tree may hold: "a" and "a-b" under the root, a chain of "x"
\* below "a", and a folder whose own name ends in ".json", "a-b/d.json"
FolderUniverse ==
    {<<Name_a>> \o [k \in 1..d |-> Name_x] : d \in 0..(MaxDepth - 1)}
    \cup {<<Name_a_b>>, <<Name_a_b, File_d_json>>}
Shapes == {S \in SUBSET FolderUniverse : \A f \in S : Len(f) > 1 => Front(f) \in S}

TreeOf(S, blobs, failing) == [folders |-> S \cup {<<>>}, blobs |-> blobs, failing |-> failing]

BlobOptions == {<<>>, <<File_c_json>>, <<File_cjson>>}

AtMostOne(S) == {{}} \cup {{x} : x \in S}

\* every tree of the bounded shapes, every listing answering
Trees ==
    UNION {{TreeOf(S, blobs, {}) : blobs \in [S \cup {<<>>} -> BlobOptions]} : S \in Shapes}

\* a result file as the header of dashboard.py shows it
GoodFields ==
    ("date" :> IsoDate(1, 0)) @@ ("compute_time" :> Num(1)) @@ ("initial_time" :> Num(1))
GoodResponse == Response(HTTP_OK, JsonObject(GoodFields))

SimpleShape == {<<Name_a>>}
SimpleBlobs == [f \in SimpleShape \cup {<<>>} |-> IF f = <<>> THEN <<>> ELSE <<File_c_json>>]
SimpleTree == TreeOf(SimpleShape, SimpleBlobs, {})
SimpleListing ==
    [status |-> HTTP_OK, items |-> <<BlobItem(<<Name_a>>, File_c_json)>>]
GoodFiles == [f \in {File_c_json, File_d_json} |-> GoodResponse]
GoodCommits == [status |-> HTTP_OK, revs |-> <<GoodResponse>>]

\* the stores of the discovery walk: every tree of the bounded shapes
DiscoveryStores ==
    {[tree |-> t, app_listing |-> SimpleListing, files |-> GoodFiles, commits |-> GoodCommits] :
        t \in Trees}

\* the stores of the main script: the listing of the application and the
\* raw fetch of each of its files answer in every way
AppItemOptions ==
    {<<>>,
     <<BlobItem(<<Name_a>>, File_cjson)>>,
     <<BlobItem(<<Name_a>>, File_c_json)>>,
     <<BlobItem(<<Name_a>>, File_d_json), TreeItem(<<Name_a>>, Name_x),
       BlobItem(<<Name_a>>, File_c_json)>>}
AppListings ==
    {[status |-> HTTP_OK, items |-> o] : o \in AppItemOptions}
    \cup {[status |-> s, items |-> <<>>] : s \in {HTTP_NOT_FOUND, HTTP_SERVER_ERROR}}
FileResponses ==
    {Response(HTTP_NOT_FOUND, Malformed),
     Response(HTTP_OK, Malformed),
     Response(HTTP_OK, JsonArray),
     GoodResponse,
     Response(HTTP_OK, JsonObject(GoodFields @@ ("config" :> Text(Name_x))))}
MainStores ==
    {[tree |-> TreeOf(SimpleShape, SimpleBlobs, failing),
      app_listing |-> l,
      files |-> f,
      commits |-> [status |-> s, revs |-> <<GoodResponse>>]] :
        failing \in AtMostOne(SimpleShape \cup {<<>>}),
        l \in AppListings,
        f \in [{File_c_json, File_d_json} -> FileResponses],
        s \in {HTTP_OK, HTTP_NOT_FOUND, HTTP_SERVER_ERROR}}

\* the stores of the history of a file.  The dates of a revision: date-time
\* strings (two of them the same instant), a string that is no date, a
\* number, a nested value
DateOptions ==
    {IsoDate(1, 0), IsoDate(2, 0), IsoDate(3, 2), Text(<<"n", "/", "a">>), Num(1), Nested}
Times(compute, initial) == ("compute_time" :> compute) @@ ("initial_time" :> initial)
\* the fields of a revision: no date, every date, a second compute_time
RevFields ==
    {Times(Num(1), Num(1))}
    \cup {("date" :> d) @@ Times(Num(1), Num(1)) : d \in DateOptions}
    \cup {("date" :> IsoDate(2, 0)) @@ Times(Num(3), Num(1))}
\* the fields of a revision with an odd value: times that are null, str or
\* bool, a str time alone, a date that is a bool, a test that failed
OddRevFields ==
    {("date" :> IsoDate(1, 0)) @@ Times(c, Num(1)) :
        c \in {Null, Text(Name_x), Bool(TRUE), Bool(FALSE)}}
    \cup {("date" :> IsoDate(1, 0)) @@ Times(c, c) : c \in {Text(Name_x), Bool(TRUE)}}
    \cup {("date" :> IsoDate(1, 0)) @@ ("initial_time" :> Text(Name_x)),
          ("date" :> Bool(TRUE)) @@ Times(Num(1), Num(1)),
          ("date" :> IsoDate(2, 0)) @@ Times(Num(1), Num(1)) @@ ("test_result" :> Bool(FALSE))}
RevResponses ==
    {Response(HTTP_NOT_FOUND, Malformed),
     Response(HTTP_OK, Malformed),
     Response(HTTP_OK, JsonArray)}
    \cup {Response(HTTP_OK, JsonObject(f)) : f \in RevFields}
OddRevResponses == {Response(HTTP_OK, JsonObject(f)) : f \in OddRevFields}
\* every list of at most MaxRevs revisions, each answering in every way, and
\* every list of at most MaxOddRevs revisions with the odd ones among them
MaxOddRevs == 2
HistoryStores ==
    {[tree |-> SimpleTree, app_listing |-> SimpleListing, files |-> GoodFiles,
      commits |-> [status |-> HTTP_OK, revs |-> r]] :
        r \in SeqsUpTo(RevResponses, MaxRevs)
              \cup SeqsUpTo(RevResponses \cup OddRevResponses, MaxOddRevs)}
    \cup {[tree |-> SimpleTree, app_listing |-> SimpleListing, files |-> GoodFiles,
           commits |-> [status |-> s, revs |-> <<>>]] :
              s \in {HTTP_NOT_FOUND, HTTP_SERVER_ERROR}}

\* ------------------------------------------------------ specifications
IdleTrend ==
    /\ series = [index |-> <<>>, values |-> <<>>]
    /\ threshold = SliderDefault
    /\ i = 0
    /\ start_idx = 0
    /\ segments = <<>>
    /\ t_pc = "idle"
    /\ t_out = [index |-> <<>>, values |-> <<>>]

\* the script at its first line
ScriptStart ==
    /\ pc = "step1"
    /\ requests = <<>>
    /\ ui = <<>>
    /\ stack = <<>>
    /\ matching_folders = <<>>
    /\ apps = <<>>
    /\ selected_app = <<>>
    /\ json_files = <<>>
    /\ file_pos = 0
    /\ data = <<>>
    /\ h_file = <<>>
    /\ commits = <<>>
    /\ h_pos = 0
    /\ h_data = <<>>
    /\ df = <<>>
    /\ chart = <<>>

InitDiscovery == IdleTrend /\ ScriptStart /\ store \in DiscoveryStores
InitMain == IdleTrend /\ ScriptStart /\ store \in MainStores
InitHistory == IdleTrend /\ ScriptStart /\ store \in HistoryStores
Init == InitDiscovery \/ InitMain \/ InitHistory

Next ==
    \/ Step1Call
    \/ Recurse
    \/ Step1Return
    \/ SelectApp
    \/ Step2
    \/ Step3
    \/ Step4
    \/ Step5
    \/ HistCommits
    \/ HistFetch
    \/ HistPlot

SpecDiscovery == InitDiscovery /\ [][Next]_vars
SpecMain == InitMain /\ [][Next]_vars
SpecHistory == InitHistory /\ [][Next]_vars
Spec == Init /\ [][Next]_vars

\* --- the function run step by step
\* the index of a series: 0 .. n-1, or the same labels in reverse (a frame
\* that sort_values has reordered keeps its labels)
RangeIndex(n) == [k \in 1..n |-> k - 1]
ReversedIndex(n) == [k \in 1..n |-> n - k]

ExampleValues == [k \in 1..6 |-> Float(<<10, 10, 10, 100, 100, 100>>[k])]
ExampleMeans == [k \in 1..6 |-> Frac(ExampleValues[k].n, 1)]
Thresholds == {1, 50, 100, 200}

TrendInputs ==
    UNION {{[index |-> ix, values |-> v] :
                ix \in {RangeIndex(k), ReversedIndex(k)},
                v \in [1..k -> {Float(n) : n \in 0..MaxVal}]} :
           k \in 0..MaxLen}
    \cup {[index |-> RangeIndex(Len(ExampleValues)), values |-> ExampleValues]}

InitTrend ==
    /\ series \in TrendInputs
    /\ threshold \in Thresholds
    /\ i = 0
    /\ start_idx = 0
    /\ segments = <<>>
    /\ t_pc = "call"
    /\ t_out = [index |-> <<>>, values |-> <<>>]
    /\ store = <<>>
    /\ ScriptStart

\* lines 185-190
TrendEnter ==
    /\ t_pc = "call"
    /\ IF Len(series.values) = 0
       THEN /\ t_out' = EmptySeries(series)
            /\ t_pc' = "returned"
            /\ UNCHANGED <<i, start_idx, segments>>
       ELSE /\ i' = TrendStart.i
            /\ start_idx' = TrendStart.start_idx
            /\ segments' = TrendStart.segments
            /\ t_pc' = "loop"
            /\ UNCHANGED t_out
    /\ UNCHANGED <<series, threshold>>
    /\ UNCHANGED p_vars

\* lines 192-198
TrendLoop ==
    /\ t_pc = "loop"
    /\ i < Len(series.values)
    /\ LET st == TrendStep(series.values, threshold,
                           [i |-> i, start_idx |-> start_idx, segments |-> segments])
       IN /\ i' = st.i
          /\ start_idx' = st.start_idx
          /\ segments' = st.segments
    /\ UNCHANGED <<series, threshold, t_pc, t_out>>
    /\ UNCHANGED p_vars

\* lines 200-204
TrendReturn ==
    /\ t_pc = "loop"
    /\ i >= Len(series.values)
    /\ t_out' = TrendFinish(series, [i |-> i, start_idx |-> start_idx, segments |-> segments])
    /\ t_pc' = "returned"
    /\ UNCHANGED <<series, threshold, i, start_idx, segments>>
    /\ UNCHANGED p_vars

NextTrend == TrendEnter \/ TrendLoop \/ TrendReturn

SpecTrend == InitTrend /\ [][NextTrend]_vars


\* =================================================================== claims

\* ---- detect_step_trend (SpecTrend)
Returned == t_pc = "returned"

\* C1: for every series and threshold the returned series has exactly as many
\* elements as the input and carries the input's index; the empty series
\* gives the empty series.
C1_SameLengthSameIndex ==
    Returned =>
        /\ Len(t_out.values) = Len(series.values)
        /\ t_out.index = series.index
        /\ (series.values = <<>> => t_out.values = <<>>)

\* a series of three or more values cut into several segments has been returned
C1_Witness ==
    /\ Returned
    /\ Len(series.values) >= 3
    /\ start_idx > 0
    /\ series.index # RangeIndex(Len(series.values))

\* the indices (from 0) at which a segment starts: 0, and every index whose
\* pair with its predecessor passes the boundary test
SegmentStarts ==
    {0} \cup {j \in 1..(Len(series.values) - 1) :
                 BoundaryTest(Iloc(series.values, j - 1), Iloc(series.values, j), threshold)}
SegmentStartOf(p) ==
    CHOOSE a \in SegmentStarts : a <= p /\ \A b \in SegmentStarts : b <= p => b <= a
SegmentStopOf(p) ==
    LET later == {b \in SegmentStarts : b > p}
    IN IF later = {} THEN Len(series.values)
       ELSE CHOOSE b \in later : \A c \in later : b <= c

\* C2: the output is constant over the segments that start at index 0 and at
\* every index where the boundary test fires; every position holds the
\* arithmetic mean of the input values of its segment (the fraction out with
\* out * size = sum); [10,10,10,100,100,100] at threshold 0.5 gives
\* [10,10,10,100,100,100].
C2_SegmentMeans ==
    Returned =>
        /\ \A p \in 0..(Len(series.values) - 1) :
              LET a == SegmentStartOf(p)
                  b == SegmentStopOf(p)
                  out == Iloc(t_out.values, p)
                  sum == Sum(SubSeq(series.values, a + 1, b))
              IN /\ out.den > 0
                 /\ out.num * (b - a) = sum * out.den
        /\ (series.values = ExampleValues /\ threshold = 50) => t_out.values = ExampleMeans

\* the example of the claim has been computed
C2_Witness ==
    /\ Returned
    /\ series.values = ExampleValues
    /\ threshold = 50
    /\ start_idx = 3
    /\ t_out.values = ExampleMeans

\* the iteration of the loop that looks at the pair (i-1, i)
LoopStepAt == t_pc = "loop" /\ i' = i + 1

\* |cur - prev| / max(|prev|, 1e-8) > thr on whole numbers, thr counted in
\* slider steps
EpsilonInverse == 10 ^ 8
RelativeChangeExceeds(prev, cur, thr) ==
    IF prev # 0
    THEN Abs(cur - prev) * SliderScale > thr * Abs(prev)
    ELSE Abs(cur - prev) * SliderScale > thr \div EpsilonInverse

\* C3: an iteration opens a new segment at i exactly when the
\* relative change |v[i] - v[i-1]| / max(|v[i-1]|, epsilon) is strictly
\* greater than the threshold.
C3_RelativeBoundary ==
    [][LoopStepAt =>
          ((start_idx' = i) <=>
              RelativeChangeExceeds(Iloc(series.values, i - 1).n,
                                    Iloc(series.values, i).n, threshold))]_vars

\* ---- parse_file_history (SpecHistory)
Revs == store.commits.revs
\* the loop over the commits has run to its end
HistoryWalked == h_pos > Len(Revs)
\* the frame has been handed to plot_history_new
Plotted == ui # <<>> /\ Last(ui).kind = "chart"

\* C4: any two adjacent records of the series handed to the plotting step
\* are in order of timestamp: the earlier one's date is less than or equal to
\* the later one's.
C4_OrderedByTimestamp ==
    Plotted =>
        \A k \in 1..(Len(df) - 1) :
            /\ ~df[k].date.nat
            /\ ~df[k + 1].date.nat
            /\ \/ df[k].date.t < df[k + 1].date.t
               \/ df[k].date.t = df[k + 1].date.t /\ df[k].date.ns <= df[k + 1].date.ns

\* every record has its two times, both numbers: the date is all that can be
\* wrong with a record
TimesAreNumbers ==
    \A k \in 1..Len(h_data) :
        /\ {"initial_time", "compute_time"} \subseteq DOMAIN h_data[k]
        /\ h_data[k]["initial_time"].t = "num"
        /\ h_data[k]["compute_time"].t = "num"

NotFoundCount == Cardinality({k \in 1..Len(Revs) : Revs[k].status # 200})
\* a date that can be read as a date-time: a date-time string, or a number
\* (nanoseconds since the epoch)
DateParses(v) == v.t \in {"isodate", "num"}
\* a fetched revision that is a parse failure: text that is no JSON object,
\* or an object whose date is missing (absent, null or nested) or cannot be
\* read as a date-time
IsParseFailure(r) ==
    /\ r.status = 200
    /\ \/ r.body.kind # "object"
       \/ "date" \notin DOMAIN r.body.fields
       \/ ~DateParses(r.body.fields["date"])
ParseFailureCount == Cardinality({k \in 1..Len(Revs) : IsParseFailure(Revs[k])})
ContentRequests == SelectSeq(requests, LAMBDA r : r.kind = "raw_at")
\* the reconstruction has ended, with the series it hands to the plotting
\* step or with an exception
HistoryEnded ==
    /\ store.commits.status = 200
    /\ HistoryWalked
    /\ pc \in {"done", "crashed"}

\* C5: a revision whose fetch answers with a status other than 200 adds no
\* record and does not end the walk: every listed revision is fetched, once
\* and in the listed order, and the reconstruction ends with an output whose
\* records number the listed revisions less the not-found fetches less the
\* parse failures (no JSON object, or no date that reads as a date-time).
C5_SkipsNotFound ==
    /\ pc = "history_loop" =>
          /\ Len(ContentRequests) = h_pos - 1
          /\ \A k \in 1..Len(ContentRequests) :
                /\ ContentRequests[k].ref = k
                /\ ContentRequests[k].status = Revs[k].status
    /\ HistoryWalked => Len(ContentRequests) = Len(Revs)
    /\ (HistoryEnded /\ TimesAreNumbers) =>
          /\ pc = "done"
          /\ Len(df) = Len(Revs) - NotFoundCount - ParseFailureCount

\* C6: no record with a missing or not-a-time date is in the series handed to
\* the plotting and step-trend stage, and a revision with such a date does
\* not make the reconstruction fail.
C6_NoNullDates ==
    /\ Plotted => \A k \in 1..Len(df) : ~df[k].date.nat
    /\ (HistoryWalked /\ TimesAreNumbers) => pc # "crashed"

\* ---- list_subfolders_with_json_files (SpecDiscovery)
DiscoveryReturned == stack = <<>> /\ pc \notin {"step1", "recurse"}

Items(p) == TreeResponse(store.tree, p).items

RECURSIVE ReachableFrom(_)
ReachableFrom(S) ==
    LET more == S \cup UNION {{Items(p)[k].path : k \in {k \in 1..Len(Items(p)) :
                                                      Items(p)[k].type = "tree"}} :
                               p \in S}
    IN IF more = S THEN S ELSE ReachableFrom(more)

NameEndsInDotJson(item) ==
    /\ Len(item.name) >= 5
    /\ SubSeq(item.name, Len(item.name) - 4, Len(item.name)) = <<".", "j", "s", "o", "n">>

\* the folders under the root with a direct child file, and with a direct
\* child of any kind, whose name ends in ".json"
FoldersWithJsonFile ==
    {p \in ReachableFrom({RESULTS_ROOT}) \ {RESULTS_ROOT} :
        \E k \in 1..Len(Items(p)) : Items(p)[k].type = "blob" /\ NameEndsInDotJson(Items(p)[k])}
FoldersWithJsonChild ==
    {p \in ReachableFrom({RESULTS_ROOT}) \ {RESULTS_ROOT} :
        \E k \in 1..Len(Items(p)) : NameEndsInDotJson(Items(p)[k])}

UnderRoot(paths) == {SubSeq(p, Len(RESULTS_ROOT) + 2, Len(p)) : p \in paths}
Reported == {apps[k] : k \in 1..Len(apps)}
AppsAscending == \A k \in 1..(Len(apps) - 1) : StrLess(apps[k], apps[k + 1])

\* C7 (as amended): the walk returns, in strictly ascending lexicographic
\* order, exactly the folders reachable from the root, other than the root,
\* that have a direct child file (an entry of type blob) whose name ends in
\* ".json", each as its path under the root, whether or not the folders above
\* them qualify.
C7_FoldersWithJsonFileSorted ==
    DiscoveryReturned => (AppsAscending /\ Reported = UnderRoot(FoldersWithJsonFile))

\* C7 (as stated): ... exactly the folders, other than the root, that have a
\* direct child whose name ends in ".json".
C7_FoldersWithJsonChildSorted ==
    DiscoveryReturned => (AppsAscending /\ Reported = UnderRoot(FoldersWithJsonChild))

\* "a" has no JSON file and is left out, its subfolder "a/x" and its sibling
\* "a-b" are reported, in sorted order (the walk met "a/x" first)
C7_Witness ==
    /\ DiscoveryReturned
    /\ <<Name_a>> \in store.tree.folders
    /\ apps = <<Name_a_b, Name_a \o Slash \o Name_x>>

\* ---- the main script (SpecMain)
Step3Done == json_files # <<>> /\ file_pos > Len(json_files)
LoadsFine(f) == store.files[f].status = 200 /\ store.files[f].body.kind = "object"
LoadedFiles == SelectSeq(json_files, LoadsFine)
RawRequests == SelectSeq(requests, LAMBDA r : r.kind = "raw")

\* C8: a failure to fetch or parse one file never ends the batch: every file
\* of the listing is requested, in order, and the loaded sequence holds, in
\* listing order, exactly the files whose fetch and parse both succeeded,
\* each with its own fields and tagged with its file name.
C8_PartialBatch ==
    Step3Done =>
        /\ Len(RawRequests) = Len(json_files)
        /\ \A k \in 1..Len(json_files) :
              RawRequests[k].target =
                  RESULTS_ROOT \o Slash \o selected_app \o Slash \o json_files[k]
        /\ Len(data) = Len(LoadedFiles)
        /\ \A k \in 1..Len(data) :
              LET fields == store.files[LoadedFiles[k]].body.fields
              IN /\ data[k]["config"].t = "text"
                 /\ data[k]["config"].s = LoadedFiles[k]
                 /\ DOMAIN data[k] = DOMAIN fields \cup {"config"}
                 /\ \A key \in DOMAIN fields \ {"config"} : data[k][key] = fields[key]

\* two files listed, the first failed, the second loaded although it holds
\* a "config" field of its own
C8_Witness ==
    /\ Step3Done
    /\ Len(json_files) = 2
    /\ ~LoadsFine(json_files[1])
    /\ LoadsFine(json_files[2])
    /\ "config" \in DOMAIN store.files[json_files[2]].body.fields
    /\ Len(data) = 1

NothingShown ==
    /\ \A k \in 1..Len(ui) : ui[k].kind \notin {"table", "chart"}
    /\ \A k \in 1..Len(requests) : requests[k].kind \notin {"commits", "raw_at"}
AppListed == requests # <<>> /\ Last(requests).kind = "file_list"
AllFilesFailed == Step3Done /\ LoadedFiles = <<>>

\* C9: when files are listed and every one fails, the script ends with
\* nothing loaded and the note "no valid data"; when no JSON file is listed
\* it ends with a warning; when the listing fails it ends with an error:
\* three different outcomes, and in none of them is a table shown or a
\* history read.
C9_DistinctEmptyOutcomes ==
    /\ (AllFilesFailed /\ pc # "step3") =>
          /\ pc = "done"
          /\ data = <<>>
          /\ Last(ui).kind = "info"
          /\ NothingShown
    /\ (AppListed /\ Last(requests).status = 200 /\ json_files = <<>>) =>
          /\ pc = "stopped"
          /\ Last(ui).kind = "warning"
          /\ NothingShown
    /\ (AppListed /\ Last(requests).status # 200) =>
          /\ pc = "stopped"
          /\ Last(ui).kind = "error"
          /\ NothingShown

\* two files were listed and both failed
C9_Witness ==
    /\ AllFilesFailed
    /\ Len(json_files) = 2
    /\ pc = "done"
    /\ Last(ui).kind = "info"

FailedListing(r) == r.kind \in {"tree", "file_list", "commits"} /\ ~(r.status >= 200 /\ r.status < 300)

\* C10: a listing that fails is the last request of the run (nothing is
\* fetched after it and it is not asked again), the script stops there, and
\* the operation leaves nothing: no list of folders and no page for a folder
\* listing of the walk, no loaded file and no table for the listing of the
\* application, no record and no chart for the listing of the revisions.
C10_ListingFailureIsFatal ==
    \A k \in 1..Len(requests) :
        FailedListing(requests[k]) =>
            /\ k = Len(requests)
            /\ pc \in {"crashed", "stopped"}
            /\ \A m \in 1..Len(ui) : ui[m].kind # "chart"
            /\ requests[k].kind = "tree" => (apps = <<>> /\ ui = <<>>)
            /\ requests[k].kind = "file_list" =>
                  /\ json_files = <<>>
                  /\ data = <<>>
                  /\ Last(ui).kind = "error"
                  /\ \A m \in 1..Len(ui) : ui[m].kind # "table"
            /\ requests[k].kind = "commits" =>
                  (commits = <<>> /\ h_data = <<>> /\ df = <<>> /\ chart = <<>>)

\* the listing of the revisions failed after the table was shown
C10_Witness ==
    /\ requests # <<>>
    /\ Last(requests).kind = "commits"
    /\ Last(requests).status = 500
    /\ pc = "crashed"
    /\ \E m \in 1..Len(ui) : ui[m].kind = "table"

====
